---- MODULE Spec2Model ----
(***************************************************************************)
(* Model of the pyield-data updaters: the upsert-merge of update.py,       *)
(* update_bc_sec.py, update_anbima.py and update_di.py, the target-date    *)
(* resolver and main of update.py, and main of update_0900.py.             *)
(*                                                                         *)
(* A table is a record [columns, rows]: columns is the set of column names *)
(* and rows a sequence of functions from columns to values.  Key columns   *)
(* and value columns hold integers >= 1; Null stands for null / NaN.       *)
(***************************************************************************)
EXTENDS Integers, Sequences, FiniteSets, TLC

\* ---------------------------------------------------------------- bounds
MaxKey == 2        \* every key column ranges over 1..MaxKey
MaxVal == 2        \* every value column ranges over 1..MaxVal
MaxRows == 2       \* rows of the persisted table / of the fetched table at Init
MaxTotal == 3      \* rows of persisted + fetched table at Init
MaxRuns == 2       \* runs of one updater in a behaviour

\* ---------------------------------------------------------------- tables
Null == 0

SeqToSet(s) == {s[i] : i \in 1..Len(s)}

Table(cols, rows) == [columns |-> cols, rows |-> rows]

is_empty(df) == Len(df.rows) = 0

LogEntry(level, msg) == [level |-> level, msg |-> msg]

\* row r widened to the column set cols, null where r has no such column
Widen(r, cols) == [c \in cols |-> IF c \in DOMAIN r THEN r[c] ELSE Null]

WidenAll(rows, cols) == [i \in 1..Len(rows) |-> Widen(rows[i], cols)]

\* variant: an inner concatenation, which keeps the shared columns only
ConcatInner(a, b) ==
    LET cols == a.columns \cap b.columns
    IN  Table(cols,
              [i \in 1..Len(a.rows) |-> [c \in cols |-> a.rows[i][c]]]
              \o [i \in 1..Len(b.rows) |-> [c \in cols |-> b.rows[i][c]]])

\* variant: the new rows alone, the existing ones left out
ConcatNewOnly(a, b) ==
    LET cols == a.columns \cup b.columns
    IN  Table(cols, WidenAll(b.rows, cols))

\* pl.concat([df, df_new], how="diagonal_relaxed") and pd.concat([a, b]):
\* rows of a then rows of b, over the union of the columns
Concat(a, b) ==
    LET cols == a.columns \cup b.columns
    IN  Table(cols, WidenAll(a.rows, cols) \o WidenAll(b.rows, cols))

\* the tuple of a row's values in the columns subset
KeyOf(r, subset) == [i \in 1..Len(subset) |-> r[subset[i]]]

\* the rows of the indexes in kept, from index i on, in their order
RECURSIVE SelectIdx(_, _, _)
SelectIdx(rows, i, kept) ==
    IF i > Len(rows) THEN <<>>
    ELSE (IF i \in kept THEN <<rows[i]>> ELSE <<>>) \o SelectIdx(rows, i + 1, kept)

\* variant: keep="first"
UniqueKeepFirst(df, subset) ==
    LET kept == {i \in 1..Len(df.rows) :
                   \A j \in 1..(i - 1) :
                      KeyOf(df.rows[j], subset) # KeyOf(df.rows[i], subset)}
    IN  Table(df.columns, SelectIdx(df.rows, 1, kept))

\* variant: no deduplication
UniqueKeepAll(df, subset) == df

\* .unique(subset=..., keep="last") / .drop_duplicates(subset=..., keep="last"):
\* a row stays iff no later row has the same key.  The rows that stay keep
\* their relative order (pandas); polars leaves their order open, and the
\* sort by the same columns that follows fixes it.
UniqueKeepLast(df, subset) ==
    LET kept == {i \in 1..Len(df.rows) :
                   \A j \in (i + 1)..Len(df.rows) :
                      KeyOf(df.rows[j], subset) # KeyOf(df.rows[i], subset)}
    IN  Table(df.columns, SelectIdx(df.rows, 1, kept))

\* lexicographic order of key tuples of the same length
LexLess(k1, k2) ==
    \E i \in 1..Len(k1) :
        /\ k1[i] < k2[i]
        /\ \A j \in 1..(i - 1) : k1[j] = k2[j]

LexLeq(k1, k2) == k1 = k2 \/ LexLess(k1, k2)

\* .sort(by) / .sort_values(by): ascending, ties keep their order
RECURSIVE InsertSorted(_, _, _)
InsertSorted(sorted, r, by) ==
    IF sorted = <<>> THEN <<r>>
    ELSE IF LexLess(KeyOf(r, by), KeyOf(Head(sorted), by))
         THEN <<r>> \o sorted
         ELSE <<Head(sorted)>> \o InsertSorted(Tail(sorted), r, by)

RECURSIVE SortRows(_, _)
SortRows(rows, by) ==
    IF rows = <<>> THEN <<>>
    ELSE InsertSorted(SortRows(SubSeq(rows, 1, Len(rows) - 1), by),
                      rows[Len(rows)], by)

Sort(df, by) == Table(df.columns, SortRows(df.rows, by))

\* ------------------------------------------------------- update.py: merge
DI1_PARQUET == "b3_di.parquet"
TPF_PARQUET == "anbima_tpf.parquet"

DI1_CONFIG ==
    [parquet_path |-> DI1_PARQUET,
     id_cols      |-> <<"TradeDate", "ExpirationDate">>,
     dataset_name |-> "DI1"]

TPF_CONFIG ==
    [parquet_path |-> TPF_PARQUET,
     id_cols      |-> <<"ReferenceDate", "BondType", "MaturityDate">>,
     dataset_name |-> "TPF"]

\* what one call of a handler does: the table it leaves in the file, whether
\* it wrote the file, the exception it raised and what it logged
Outcome(file, wrote, raised, logged) ==
    [file |-> file, wrote |-> wrote, raised |-> raised, logged |-> logged]

\* variant: update_dataset without the is_empty test
update_dataset_unchecked(df, df_new, config) ==
    Outcome(Sort(UniqueKeepLast(Concat(df, df_new), config.id_cols), config.id_cols),
            TRUE, "none", <<LogEntry("info", config.dataset_name)>>)

\* update.update_dataset, given the table read from config.parquet_path and
\* the table config.fetch_function(target_date) returned
update_dataset(df, df_new, config) ==
    IF is_empty(df_new)
    THEN Outcome(df, FALSE, "ValueError", <<>>)
    ELSE Outcome(Sort(UniqueKeepLast(Concat(df, df_new), config.id_cols),
                      config.id_cols),
                 TRUE, "none", <<LogEntry("info", config.dataset_name)>>)

\* ---------------------------------------------------- update_bc_sec.py
BC_FILEPATH == "bc_secundario.parquet"

key_columns == <<"DATA MOV", "SIGLA", "VENCIMENTO">>

bc_update_dataset(base_df, new_df) ==
    Sort(UniqueKeepLast(Concat(base_df, new_df), key_columns), key_columns)

\* update_bc_sec.run, given the table read from BC_FILEPATH and the table
\* fetch_data_from_url returned
bc_run(main_df, new_df) ==
    Outcome(bc_update_dataset(main_df, new_df), TRUE, "none", <<>>)

\* ---------------------------------------------------- update_anbima.py
ANBIMA_FILE == "anbima_data.parquet"

anbima_subset == <<"ReferenceDate", "BondType", "MaturityDate">>

\* the module body of update_anbima.py; bday is
\* yd.bday.is_business_day(yesterday_bz)
anbima_script(df, df_new, bday) ==
    IF ~bday
    THEN Outcome(df, FALSE, "ValueError", <<>>)
    ELSE Outcome(Sort(UniqueKeepLast(Concat(df, df_new), anbima_subset),
                      anbima_subset),
                 TRUE, "none", <<>>)

\* -------------------------------------------------------- update_di.py
DI_FILE == "di_data.parquet"

di_subset == <<"TradeDate", "TickerSymbol">>

di_sort_by == <<"TradeDate", "ExpirationDate">>

DropColumn(df, col) ==
    Table(df.columns \ {col},
          [i \in 1..Len(df.rows) |->
              [c \in df.columns \ {col} |-> df.rows[i][c]]])

\* get_di_on_date, given the table yd.futures returned
get_di_on_date(df) ==
    IF "DaysToExp" \notin df.columns
    THEN [raised |-> "KeyError", df |-> df]
    ELSE IF "SettlementRate" \notin df.columns
         THEN [raised |-> "ValueError", df |-> df]
         ELSE [raised |-> "none", df |-> DropColumn(df, "DaysToExp")]

\* the module body of update_di.py; bday is
\* yd.bday.is_business_day(yesterday_bz)
di_script(df, futures, bday) ==
    IF ~bday
    THEN Outcome(df, FALSE, "ValueError", <<>>)
    ELSE LET got == get_di_on_date(futures)
         IN  IF got.raised # "none"
             THEN Outcome(df, FALSE, got.raised, <<>>)
             ELSE Outcome(Sort(UniqueKeepLast(Concat(df, got.df), di_subset),
                               di_sort_by),
                          TRUE, "none", <<>>)

\* ------------------------------------------------------------- calendar
\* A day is an integer counted from FirstDay (negative before it); DateOf
\* gives its dt.date as [year, month, day].
NumDays == 62      \* today ranges over FirstDay .. FirstDay + NumDays - 1
Lookback == 7      \* days before FirstDay the calendar reaches back to

FirstDay == [year |-> 2024, month |-> 12, day |-> 1]   \* a Sunday

IsLeap(y) == (y % 4 = 0 /\ y % 100 # 0) \/ y % 400 = 0

DaysInMonth(y, m) ==
    IF m = 2 THEN (IF IsLeap(y) THEN 29 ELSE 28)
    ELSE IF m \in {4, 6, 9, 11} THEN 30 ELSE 31

Days == (0 - Lookback)..(NumDays - 1 + Lookback)

\* the date k days after the first day of month m of year y
RECURSIVE FromMonthStart(_, _, _)
FromMonthStart(y, m, k) ==
    IF k < 0
    THEN IF m > 1
         THEN FromMonthStart(y, m - 1, k + DaysInMonth(y, m - 1))
         ELSE FromMonthStart(y - 1, 12, k + 31)
    ELSE IF k < DaysInMonth(y, m)
         THEN [year |-> y, month |-> m, day |-> k + 1]
         ELSE IF m < 12
              THEN FromMonthStart(y, m + 1, k - DaysInMonth(y, m))
              ELSE FromMonthStart(y + 1, 1, k - 31)

DateOf ==
    [n \in Days |-> FromMonthStart(FirstDay.year, FirstDay.month, n + FirstDay.day - 1)]

\* date.weekday(): Monday is 0, Sunday is 6
Weekday(n) == (n + 6 + 7 * Lookback) % 7

\* the national holidays of the business-day calendar within Days
Holidays == {[year |-> 2024, month |-> 12, day |-> 25],
             [year |-> 2025, month |-> 1, day |-> 1]}

\* yd.bday.is_business_day(date)
bday_is_business_day(n) == Weekday(n) < 5 /\ DateOf[n] \notin Holidays

\* the latest business day at or before n
RECURSIVE RollBackward(_)
RollBackward(n) == IF bday_is_business_day(n) THEN n ELSE RollBackward(n - 1)

\* the earliest business day at or after n
RECURSIVE RollForward(_)
RollForward(n) == IF bday_is_business_day(n) THEN n ELSE RollForward(n + 1)

\* yd.bday.offset(date, -1) for a business day: the business day before it
bday_offset_minus1(n) == RollBackward(n - 1)

\* yd.bday.offset(date, 0): the date rolled forward to a business day
bday_offset_0(n) == RollForward(n)

\* yd.bday.last_business_day() when the clock shows day n
bday_last_business_day(n) == RollBackward(n)

\* ------------------------------------------- update.py: the target date
CutoffHour == 20

\* variant: the cutoff hour itself counts as before the cutoff
determine_target_date_strict(clock) ==
    IF bday_is_business_day(clock.day)
    THEN IF clock.hour <= CutoffHour
         THEN bday_offset_minus1(clock.day)
         ELSE clock.day
    ELSE bday_last_business_day(clock.day)

\* determine_target_date(), clock being yd.now()
determine_target_date(clock) ==
    IF bday_is_business_day(clock.day)
    THEN IF clock.hour < CutoffHour
         THEN bday_offset_minus1(clock.day)
         ELSE clock.day
    ELSE bday_last_business_day(clock.day)

\* variant: December 24 only
is_special_holiday_xmas_only(n) ==
    LET date == DateOf[n]
    IN  date = [year |-> date.year, month |-> 12, day |-> 24]

\* is_special_holiday(date)
is_special_holiday(n) ==
    LET date    == DateOf[n]
        pre_xmas == [year |-> date.year, month |-> 12, day |-> 24]
        pre_ny   == [year |-> date.year, month |-> 12, day |-> 31]
    IN  date \in {pre_xmas, pre_ny}

\* ------------------------------------------------------ update_0900.py
VNA_BASE_CSV == "vna_base.csv"
VNA_PARQUET == "vna_ntnb.parquet"

\* get_previous_15th as its docstring describes it: the 15th itself goes to
\* the previous month
get_previous_15th_as_documented(date) ==
    IF date.day > 15
    THEN [year |-> date.year, month |-> date.month, day |-> 15]
    ELSE IF date.month = 1
         THEN [year |-> date.year - 1, month |-> 12, day |-> 15]
         ELSE [year |-> date.year, month |-> date.month - 1, day |-> 15]

\* get_previous_15th(date)
get_previous_15th(date) ==
    IF date.day >= 15
    THEN [year |-> date.year, month |-> date.month, day |-> 15]
    ELSE IF date.month = 1
         THEN [year |-> date.year - 1, month |-> 12, day |-> 15]
         ELSE [year |-> date.year, month |-> date.month - 1, day |-> 15]

\* yd.bday.generate(start, end, inclusive="right"): the business days of
\* (start, end], ascending
RECURSIVE bday_generate(_, _)
bday_generate(start, end) ==
    IF start >= end THEN <<>>
    ELSE bday_generate(start, end - 1)
         \o (IF bday_is_business_day(end) THEN <<end>> ELSE <<>>)

\* the columns of the VNA table; vna_base_date stands for vna_du and vna_dc,
\* which are computed from the VNA at that date
VnaColumns == {"reference_date", "vna_base_date"}

VnaRow(n) ==
    [reference_date |-> n, vna_base_date |-> get_previous_15th(DateOf[n])]

MaxOf(S) == CHOOSE x \in S : \A y \in S : y <= x

\* update_vna_dataframe, today being pd.Timestamp.today().date(),
\* df_vna_base the set of dates vna_base.csv has a VNA for, projected
\* whether yd.ipca.projected_rate() returned and ipca_ok whether
\* yd.ipca.indexes did (get_ipca_data logs its failure and returns None)
update_vna_dataframe(df_vna_base, df_vna, today, projected, ipca_ok) ==
    LET last_date_in_df ==
            MaxOf({df_vna.rows[i].reference_date : i \in 1..Len(df_vna.rows)})
        business_days == bday_generate(last_date_in_df, today)
        new_data ==
            Table(VnaColumns,
                  [i \in 1..Len(business_days) |-> VnaRow(business_days[i])])
        ipca_log == IF ipca_ok THEN <<>> ELSE <<LogEntry("error", "get_ipca_data")>>
    IN  IF last_date_in_df >= today
        THEN [raised |-> "none", df |-> df_vna, logged |-> <<>>]
        ELSE IF Len(business_days) = 0
        THEN [raised |-> "none", df |-> df_vna, logged |-> <<>>]
        ELSE IF ~projected
        THEN [raised |-> "RequestException", df |-> df_vna, logged |-> <<>>]
        ELSE IF \E i \in 1..Len(new_data.rows) :
                    new_data.rows[i].vna_base_date \notin df_vna_base
             THEN [raised |-> "IndexError", df |-> df_vna, logged |-> ipca_log]
             ELSE [raised |-> "none",
                   df |-> Sort(UniqueKeepLast(Concat(df_vna, new_data),
                                              <<"reference_date">>),
                               <<"reference_date">>),
                   logged |-> ipca_log]

\* is_business_day(date) of update_0900.py
is_business_day(n) == bday_offset_0(n) = n

\* is_pre_holiday(date)
is_pre_holiday(n) ==
    LET date    == DateOf[n]
        pre_xmas == [year |-> date.year, month |-> 12, day |-> 24]
        pre_ny   == [year |-> date.year, month |-> 12, day |-> 31]
    IN  date = pre_xmas \/ date = pre_ny

\* ------------------------------------------------------------- state
VARIABLES
    program,     \* the entry point this behaviour runs
    now,         \* the clock: [day, hour], day counted from FirstDay
    pc,          \* where the entry point stands
    target_date, \* update.main: the date determine_target_date returned
    parquet,     \* parquet files on disk: path -> table
    fetched,     \* the table the data provider returned last
    raised,      \* exception in flight or propagated, "none" if none
    wrote,       \* whether the last call wrote a parquet file
    log,         \* the logger's records, oldest first
    calls,       \* update_dataset calls and fetches made, oldest first
    runs,        \* calls of the updater made so far
    writes,      \* calls that wrote a file so far
    initial,     \* history: the files before the first call
    before,      \* history: the files before the last call
    first        \* history: the files after the first call that wrote

vars == <<program, now, pc, target_date, parquet, fetched, raised, wrote, log,
          calls, runs, writes, initial, before, first>>

\* ------------------------------------------------- tables drawn at Init
Updaters == {"update_dataset_DI1", "update_dataset_TPF", "bc_run",
             "anbima_script", "di_script"}

Path(p) ==
    CASE p = "update_dataset_DI1" -> DI1_PARQUET
      [] p = "update_dataset_TPF" -> TPF_PARQUET
      [] p = "bc_run"             -> BC_FILEPATH
      [] p = "anbima_script"      -> ANBIMA_FILE
      [] p = "di_script"          -> DI_FILE

\* the columns every table of the updater has: its key columns
KeyColumns(p) ==
    CASE p = "update_dataset_DI1" -> SeqToSet(DI1_CONFIG.id_cols)
      [] p = "update_dataset_TPF" -> SeqToSet(TPF_CONFIG.id_cols)
      [] p = "bc_run"             -> SeqToSet(key_columns)
      [] p = "anbima_script"      -> SeqToSet(anbima_subset)
      [] p = "di_script"          -> SeqToSet(di_subset) \cup SeqToSet(di_sort_by)

\* the column deduplication goes by
DedupKey(p) ==
    CASE p = "update_dataset_DI1" -> DI1_CONFIG.id_cols
      [] p = "update_dataset_TPF" -> TPF_CONFIG.id_cols
      [] p = "bc_run"             -> key_columns
      [] p = "anbima_script"      -> anbima_subset
      [] p = "di_script"          -> di_subset

\* a value column of the dataset
ValueColumn(p) ==
    CASE p = "update_dataset_DI1" -> "SettlementRate"
      [] p = "update_dataset_TPF" -> "IndicativeRate"
      [] p = "bc_run"             -> "EMISSAO"
      [] p = "anbima_script"      -> "IndicativeRate"
      [] p = "di_script"          -> "SettlementRate"

\* column sets the file on disk may have
FileColumnSets(p) ==
    LET base == KeyColumns(p) \cup {ValueColumn(p)}
    IN  CASE p = "update_dataset_DI1" -> {base, base \cup {"ForwardRate"}}
          [] p = "update_dataset_TPF" -> {base, base \cup {"DIRate"}}
          [] OTHER                    -> {base}

\* column sets the provider's table may have
FetchColumnSets(p) ==
    CASE p = "di_script" ->
            {KeyColumns(p) \cup opt : opt \in SUBSET {"DaysToExp", "SettlementRate"}}
      [] OTHER -> FileColumnSets(p)

\* the rows over cols: key columns range over 1..MaxKey, the value column
\* over 1..MaxVal, any other column holds 1
RowsOver(p, cols) ==
    {[c \in cols |-> IF c \in KeyColumns(p) THEN k[c]
                     ELSE IF c = ValueColumn(p) THEN v ELSE 1] :
        k \in [KeyColumns(p) -> 1..MaxKey], v \in 1..MaxVal}

\* the tables over cols with at most n rows
TablesOver(p, cols, n) ==
    LET rows == RowsOver(p, cols)
    IN  {Table(cols, r) : r \in UNION {[1..k -> rows] : k \in 0..n}}

Min(a, b) == IF a < b THEN a ELSE b

\* the tables the file on disk may hold
FileTables(p) == UNION {TablesOver(p, cols, MaxRows) : cols \in FileColumnSets(p)}

\* the tables of at most n rows the provider may return
FetchTables(p, n) == UNION {TablesOver(p, cols, n) : cols \in FetchColumnSets(p)}

\* ------------------------------------------------------------ upsert runs
InitUpsert ==
    /\ program \in Updaters
    /\ \E df \in FileTables(program) : parquet = [f \in {Path(program)} |-> df]
    /\ fetched \in FetchTables(program,
                               Min(MaxRows, MaxTotal - Len(parquet[Path(program)].rows)))
    /\ now = [day |-> 0, hour |-> 0]
    /\ pc = "call"
    /\ target_date = 0
    /\ calls = <<>>
    /\ raised = "none"
    /\ wrote = FALSE
    /\ log = <<>>
    /\ runs = 0
    /\ writes = 0
    /\ initial = parquet
    /\ before = parquet
    /\ first = parquet

\* the effect of one call on the state
Apply(path, out) ==
    /\ parquet' = [parquet EXCEPT ![path] = out.file]
    /\ raised' = out.raised
    /\ wrote' = out.wrote
    /\ log' = log \o out.logged
    /\ runs' = runs + 1
    /\ writes' = IF out.wrote THEN writes + 1 ELSE writes
    /\ before' = parquet
    /\ first' = IF out.wrote /\ writes = 0 THEN parquet' ELSE first
    /\ UNCHANGED <<program, now, initial>>

UpdateDataset(config) ==
    /\ program = "update_dataset_" \o config.dataset_name
    /\ runs < MaxRuns
    /\ Apply(config.parquet_path,
             update_dataset(parquet[config.parquet_path], fetched, config))
    /\ UNCHANGED <<fetched, pc, target_date, calls>>

BcRun ==
    /\ program = "bc_run"
    /\ runs < MaxRuns
    /\ Apply(BC_FILEPATH, bc_run(parquet[BC_FILEPATH], fetched))
    /\ UNCHANGED <<fetched, pc, target_date, calls>>

AnbimaScript ==
    /\ program = "anbima_script"
    /\ runs < MaxRuns
    /\ \E bday \in BOOLEAN :
          Apply(ANBIMA_FILE, anbima_script(parquet[ANBIMA_FILE], fetched, bday))
    /\ UNCHANGED <<fetched, pc, target_date, calls>>

DiScript ==
    /\ program = "di_script"
    /\ runs < MaxRuns
    /\ \E bday \in BOOLEAN :
          Apply(DI_FILE, di_script(parquet[DI_FILE], fetched, bday))
    /\ UNCHANGED <<fetched, pc, target_date, calls>>

NextUpsert ==
    \/ \E config \in {DI1_CONFIG, TPF_CONFIG} : UpdateDataset(config)
    \/ BcRun
    \/ AnbimaScript
    \/ DiScript

SpecUpsert == InitUpsert /\ [][NextUpsert]_vars

\* ------------------------------------------------------ update.py: main
Hours == {0, CutoffHour - 1, CutoffHour, 23}

ConfigColumns(config) ==
    SeqToSet(config.id_cols)
    \cup {IF config.dataset_name = "DI1" THEN "SettlementRate" ELSE "IndicativeRate"}

\* the row of the history main starts from, and the rows a fetch may bring:
\* the same key with another value, and another key
HistoryRow(config) == [c \in ConfigColumns(config) |-> 1]

UpdatedRow(config) ==
    [c \in ConfigColumns(config) |-> IF c \in SeqToSet(config.id_cols) THEN 1 ELSE MaxVal]

NewRow(config) ==
    [c \in ConfigColumns(config) |-> IF c \in SeqToSet(config.id_cols) THEN MaxKey ELSE 1]

MainFileTables(config) ==
    {Table(ConfigColumns(config), rows) : rows \in {<<>>, <<HistoryRow(config)>>}}

MainFetchTables(config) ==
    {Table(ConfigColumns(config), rows) :
        rows \in {<<>>, <<UpdatedRow(config)>>, <<NewRow(config)>>}}

Call(name, exc) == [name |-> name, raised |-> exc]

Last(seq) == seq[Len(seq)]

InitUpdateMain ==
    /\ program = "update_main"
    /\ now \in [day : 0..(NumDays - 1), hour : Hours]
    /\ \E di1 \in MainFileTables(DI1_CONFIG), tpf \in MainFileTables(TPF_CONFIG) :
          parquet = [f \in {DI1_PARQUET, TPF_PARQUET} |->
                        IF f = DI1_PARQUET THEN di1 ELSE tpf]
    /\ fetched = Table({}, <<>>)

\* main of update.py up to the try statement
MainStart ==
    /\ program = "update_main"
    /\ pc = "start"
    /\ target_date' = determine_target_date(now)
    /\ IF is_special_holiday(target_date')
       THEN /\ log' = log \o <<LogEntry("info", "target"), LogEntry("info", "holiday")>>
            /\ pc' = "returned"
       ELSE /\ log' = log \o <<LogEntry("info", "target")>>
            /\ pc' = "try_DI1"
    /\ UNCHANGED <<program, now, parquet, fetched, raised, wrote, calls, runs,
                   writes, initial, before, first>>

\* one update_dataset call inside the try of main: the fetch either fails
\* or returns a table
MainUpdate(config) ==
    /\ program = "update_main"
    /\ pc = "try_" \o config.dataset_name
    /\ \E failed \in BOOLEAN, df_new \in MainFetchTables(config) :
          LET out == IF failed
                     THEN Outcome(parquet[config.parquet_path], FALSE, "FetchError", <<>>)
                     ELSE update_dataset(parquet[config.parquet_path], df_new, config)
          IN  /\ Apply(config.parquet_path, out)
              /\ fetched' = IF failed THEN fetched ELSE df_new
              /\ calls' = Append(calls, Call(config.dataset_name, out.raised))
              /\ pc' = IF out.raised # "none" THEN "except"
                       ELSE IF config.dataset_name = "DI1" THEN "try_TPF"
                       ELSE "returned"
    /\ UNCHANGED target_date

\* variant: an except clause that logs nothing
except_log_nothing(e) == <<>>

\* what the except clause of main logs
except_log(e) == <<LogEntry("error", e)>>

\* the except clause of main of update.py: log, then raise
MainExcept ==
    /\ program = "update_main"
    /\ pc = "except"
    /\ log' = log \o except_log(raised)
    /\ pc' = "raised"
    /\ UNCHANGED <<program, now, target_date, parquet, fetched, raised, wrote,
                   calls, runs, writes, initial, before, first>>

\* ------------------------------------------------- update_0900.py: main
MaxLag == 3        \* days the VNA file may lag behind today at Init

BaseDates == {get_previous_15th(DateOf[n]) : n \in 0..(NumDays - 1)}

InitMain0900 ==
    /\ program = "main_0900"
    /\ now \in [day : 0..(NumDays - 1), hour : {0}]
    /\ \/ parquet = [f \in {} |-> Table({}, <<>>)]
       \/ \E lag \in 0..MaxLag :
             parquet = [f \in {VNA_PARQUET} |->
                           Table(VnaColumns, <<VnaRow(now.day - lag)>>)]
    /\ fetched = {}

\* main of update_0900.py up to the try statement
Main0900Start ==
    /\ program = "main_0900"
    /\ pc = "start"
    /\ IF ~is_business_day(now.day)
       THEN /\ log' = Append(log, LogEntry("warning", "not a business day"))
            /\ pc' = "returned"
       ELSE IF is_pre_holiday(now.day)
            THEN /\ log' = Append(log, LogEntry("warning", "pre-holiday"))
                 /\ pc' = "returned"
            ELSE /\ log' = log
                 /\ pc' = "get_ipca_calendar"
    /\ UNCHANGED <<program, now, target_date, parquet, fetched, raised, wrote,
                   calls, runs, writes, initial, before, first>>

\* get_ipca_calendar(): the request succeeds, or fails, is logged and raised
GetIpcaCalendar ==
    /\ program = "main_0900"
    /\ pc = "get_ipca_calendar"
    /\ \E ok \in BOOLEAN :
          IF ok
          THEN /\ calls' = Append(calls, Call("get_ipca_calendar", "none"))
               /\ UNCHANGED <<log, raised>>
               /\ pc' = "load"
          ELSE /\ calls' = Append(calls, Call("get_ipca_calendar", "RequestException"))
               /\ log' = Append(log, LogEntry("error", "RequestException"))
               /\ raised' = "RequestException"
               /\ pc' = "except"
    /\ UNCHANGED <<program, now, target_date, parquet, fetched, wrote, runs,
                   writes, initial, before, first>>

\* pd.read_csv(VNA_BASE_CSV) and pd.read_parquet(VNA_PARQUET): a missing
\* file goes to the inner except clause
LoadExisting ==
    /\ program = "main_0900"
    /\ pc = "load"
    /\ \E csv_exists \in BOOLEAN, df_vna_base \in SUBSET BaseDates :
          IF ~csv_exists \/ VNA_PARQUET \notin DOMAIN parquet
          THEN /\ calls' = Append(calls, Call("load", "FileNotFoundError"))
               /\ log' = Append(log, LogEntry("info", "FileNotFoundError"))
               /\ pc' = "returned"
               /\ UNCHANGED fetched
          ELSE /\ calls' = Append(calls, Call("load", "none"))
               /\ log' = Append(log, LogEntry("info", "loaded"))
               /\ pc' = "update"
               /\ fetched' = df_vna_base
    /\ UNCHANGED <<program, now, target_date, parquet, raised, wrote, runs,
                   writes, initial, before, first>>

\* update_vna_dataframe and to_parquet
UpdateVna ==
    /\ program = "main_0900"
    /\ pc = "update"
    /\ \E projected \in BOOLEAN, ipca_ok \in BOOLEAN :
          LET res == update_vna_dataframe(fetched, parquet[VNA_PARQUET],
                                          now.day, projected, ipca_ok)
          IN  /\ calls' = Append(calls, Call("update_vna_dataframe", res.raised))
              /\ IF res.raised # "none"
                 THEN /\ Apply(VNA_PARQUET,
                               Outcome(parquet[VNA_PARQUET], FALSE, res.raised,
                                       res.logged))
                      /\ pc' = "except"
                 ELSE /\ Apply(VNA_PARQUET,
                               Outcome(res.df, TRUE, "none",
                                       res.logged \o <<LogEntry("info", "saved")>>))
                      /\ pc' = "returned"
    /\ UNCHANGED <<target_date, fetched>>

\* the outer except clause of main of update_0900.py: log and return
Except0900 ==
    /\ program = "main_0900"
    /\ pc = "except"
    /\ log' = log \o except_log(raised)
    /\ raised' = "none"
    /\ pc' = "returned"
    /\ UNCHANGED <<program, now, target_date, parquet, fetched, wrote, calls,
                   runs, writes, initial, before, first>>

InitMain ==
    /\ InitUpdateMain \/ InitMain0900
    /\ pc = "start"
    /\ target_date = 0
    /\ raised = "none"
    /\ wrote = FALSE
    /\ log = <<>>
    /\ calls = <<>>
    /\ runs = 0
    /\ writes = 0
    /\ initial = parquet
    /\ before = parquet
    /\ first = parquet

NextMain ==
    \/ MainStart
    \/ \E config \in {DI1_CONFIG, TPF_CONFIG} : MainUpdate(config)
    \/ MainExcept
    \/ Main0900Start
    \/ GetIpcaCalendar
    \/ LoadExisting
    \/ UpdateVna
    \/ Except0900

SpecMain == InitMain /\ [][NextMain]_vars

\* ------------------------------------------------- properties of the upsert
TheFile == parquet[Path(program)]

Existing == before[Path(program)]

\* the table that is concatenated onto the existing one
Incoming == IF program = "di_script" THEN DropColumn(fetched, "DaysToExp") ELSE fetched

Keys(df, subset) == {KeyOf(df.rows[i], subset) : i \in 1..Len(df.rows)}

RowsWithKey(df, subset, k) == {i \in 1..Len(df.rows) : KeyOf(df.rows[i], subset) = k}

HasUniqueKeys(df, subset) ==
    \A k \in Keys(df, subset) : Cardinality(RowsWithKey(df, subset, k)) = 1

IsSortedBy(df, by) ==
    \A i \in 1..(Len(df.rows) - 1) :
        LexLeq(KeyOf(df.rows[i], by), KeyOf(df.rows[i + 1], by))

\* the last row of df with key k
LastWithKey(df, subset, k) == df.rows[MaxOf(RowsWithKey(df, subset, k))]

\* C1: the table an upsert writes has exactly one row for every key tuple
\* that occurs in the existing or in the incoming table, and no other rows,
\* whether or not the existing table held duplicate keys.
C1_OneRowPerKey ==
    wrote =>
        LET key == DedupKey(program)
        IN  /\ Keys(TheFile, key) = Keys(Existing, key) \cup Keys(Incoming, key)
            /\ HasUniqueKeys(TheFile, key)

C1_Witness ==
    /\ wrote
    /\ ~HasUniqueKeys(Existing, DedupKey(program))
    /\ Keys(Incoming, DedupKey(program)) \ Keys(Existing, DedupKey(program)) # {}
    /\ Len(TheFile.rows) = 2

\* C2: for a key tuple that occurs in the existing and in the incoming table,
\* the row the upsert keeps is the last incoming row with that key (widened
\* to the output's columns), not the existing one.
C2_NewestWins ==
    wrote =>
        LET key == DedupKey(program)
        IN  \A k \in Keys(Existing, key) \cap Keys(Incoming, key) :
               \A i \in RowsWithKey(TheFile, key, k) :
                  TheFile.rows[i] = Widen(LastWithKey(Incoming, key, k), TheFile.columns)

C2_Witness ==
    /\ wrote
    /\ LET key == DedupKey(program)
       IN  \E k \in Keys(Existing, key) \cap Keys(Incoming, key) :
              /\ Widen(LastWithKey(Existing, key, k), TheFile.columns)
                    # Widen(LastWithKey(Incoming, key, k), TheFile.columns)
              /\ Cardinality(RowsWithKey(Incoming, key, k)) = 2
              /\ Incoming.rows[1] # Incoming.rows[2]

\* C3: the rows an upsert writes are sorted ascending by the key tuple the
\* deduplication goes by, in every updater.
C3_SortedByDedupKey == wrote => IsSortedBy(TheFile, DedupKey(program))

\* C4: update.update_dataset raises ValueError on an empty fetch and leaves
\* the parquet file as it was, and writes only after a non-empty fetch;
\* update_di.py raises without writing when the fetch has no SettlementRate.
C4_NoWriteOnFailedFetch ==
    /\ (runs >= 1 /\ program \in {"update_dataset_DI1", "update_dataset_TPF"}) =>
          /\ is_empty(fetched) => (raised = "ValueError" /\ ~wrote /\ parquet = before)
          /\ wrote => ~is_empty(fetched)
    /\ (runs >= 1 /\ program = "di_script" /\ "SettlementRate" \notin fetched.columns) =>
          (raised # "none" /\ ~wrote /\ parquet = before)

C4_Witness ==
    /\ runs >= 1
    /\ program = "update_dataset_DI1"
    /\ is_empty(fetched)
    /\ raised = "ValueError"
    /\ ~IsSortedBy(TheFile, DI1_CONFIG.id_cols)

\* C7: the output of an upsert has every column of the existing and of the
\* incoming table; a row taken from the side that lacks a column is null
\* there and keeps its values elsewhere.
C7_ColumnUnion ==
    wrote =>
        LET key == DedupKey(program)
        IN  /\ TheFile.columns = Existing.columns \cup Incoming.columns
            /\ \A i \in 1..Len(TheFile.rows) :
                  LET r == TheFile.rows[i]
                      side == IF KeyOf(r, key) \in Keys(Incoming, key)
                              THEN Incoming ELSE Existing
                      src == LastWithKey(side, key, KeyOf(r, key))
                  IN  /\ DOMAIN r = TheFile.columns
                      /\ \A c \in TheFile.columns :
                            r[c] = IF c \in side.columns THEN src[c] ELSE Null

C7_Witness ==
    /\ wrote
    /\ Existing.columns \ Incoming.columns # {}
    /\ \E i, j \in 1..Len(TheFile.rows) :
          /\ KeyOf(TheFile.rows[i], DedupKey(program)) \in Keys(Incoming, DedupKey(program))
          /\ KeyOf(TheFile.rows[j], DedupKey(program)) \notin Keys(Incoming, DedupKey(program))

\* C10: when the existing table has unique keys, running the upsert again
\* with the same fetched table leaves the file as the first run wrote it.
C10_Idempotent ==
    (writes >= 2 /\ HasUniqueKeys(initial[Path(program)], DedupKey(program))) =>
        parquet = first

C10_Witness ==
    /\ writes >= 2
    /\ HasUniqueKeys(initial[Path(program)], DedupKey(program))
    /\ first # initial
    /\ Len(initial[Path(program)].rows) >= 1
    /\ Len(TheFile.rows) >= 2

\* --------------------------------------------------- properties of main
IsDec24Or31(n) == DateOf[n].month = 12 /\ DateOf[n].day \in {24, 31}

\* t is the business day immediately before day n
IsPriorBusinessDay(t, n) ==
    /\ t < n
    /\ bday_is_business_day(t)
    /\ \A d \in (t + 1)..(n - 1) : ~bday_is_business_day(d)

\* C5: determine_target_date returns today when today is a business day and
\* the hour is at or after the cutoff, and otherwise the latest business day
\* before today.
C5_TargetDate ==
    (program = "update_main" /\ pc # "start") =>
        IF bday_is_business_day(now.day) /\ now.hour >= CutoffHour
        THEN target_date = now.day
        ELSE IsPriorBusinessDay(target_date, now.day)

C5_Witness ==
    /\ program = "update_main"
    /\ pc # "start"
    /\ now.hour = CutoffHour
    /\ bday_is_business_day(now.day)
    /\ target_date = now.day

\* C6: when the target date of update.main is December 24 or 31, main
\* returns without calling update_dataset and leaves both files alone; when
\* today is December 24 or 31, update_0900.main returns before any fetch or
\* write.
C6_HolidaysSkipped ==
    /\ (program = "update_main" /\ pc # "start" /\ IsDec24Or31(target_date)) =>
          (pc = "returned" /\ calls = <<>> /\ runs = 0 /\ parquet = initial)
    /\ (program = "main_0900" /\ pc # "start" /\ IsDec24Or31(now.day)) =>
          (pc = "returned" /\ calls = <<>> /\ runs = 0 /\ parquet = initial)

C6_Witness ==
    /\ program = "update_main"
    /\ pc = "returned"
    /\ DateOf[target_date].day = 31
    /\ DateOf[target_date].month = 12
    /\ target_date # now.day

SomeCallRaised == \E i \in 1..Len(calls) : calls[i].raised # "none"

\* C8: an exception of update_dataset leaves update.main only after an
\* error record of it is the last thing logged, and a failed DI1 update
\* leaves TPF unattempted and its file unchanged; an exception inside the
\* try of update_0900.main is logged and not propagated, and the VNA file
\* is not written.
C8_LoggedBeforeLeaving ==
    /\ program = "update_main" =>
          /\ SomeCallRaised => pc \in {"except", "raised"}
          /\ pc \in {"except", "raised"} =>
                (raised # "none" /\ Last(calls).raised = raised)
          /\ pc = "raised" => (log # <<>> /\ Last(log) = LogEntry("error", raised))
          /\ (calls # <<>> /\ calls[1].raised # "none") =>
                (Len(calls) = 1 /\ parquet[TPF_PARQUET] = initial[TPF_PARQUET])
    /\ program = "main_0900" =>
          /\ pc # "raised"
          /\ (pc = "returned" /\ SomeCallRaised) =>
                /\ raised = "none"
                /\ Last(calls).raised # "none"
                /\ Last(log).msg = Last(calls).raised
                /\ Last(log).level =
                      IF Last(calls).raised = "FileNotFoundError" THEN "info" ELSE "error"
                /\ parquet = initial
                /\ writes = 0

C8_Witness ==
    /\ program = "update_main"
    /\ pc = "raised"
    /\ Len(calls) = 1
    /\ raised = "ValueError"
    /\ Len(parquet[TPF_PARQUET].rows) = 1

\* C9: get_previous_15th returns the 15th of the previous month for a date
\* whose day is 15 or less and the 15th of the same month for a later day:
\* every row update_vna_dataframe adds is based on that date.
C9_Previous15th ==
    (program = "main_0900" /\ wrote) =>
        \A i \in 1..Len(parquet[VNA_PARQUET].rows) :
            LET row == parquet[VNA_PARQUET].rows[i]
            IN  row \notin SeqToSet(initial[VNA_PARQUET].rows) =>
                   row.vna_base_date
                      = get_previous_15th_as_documented(DateOf[row.reference_date])

\* ------------------------------------------------- history across runs
\* row r of the output carries the values of the existing row e
KeepsValues(r, e) == \A c \in DOMAIN e : r[c] = e[c]

\* C11 as stated: the keys of the output are those of the existing and the
\* incoming table, and every existing row whose key is not in the incoming
\* table is in the output with its values unchanged.
C11_EveryExistingRowKept ==
    wrote =>
        LET key == DedupKey(program)
        IN  /\ Keys(TheFile, key) = Keys(Existing, key) \cup Keys(Incoming, key)
            /\ \A i \in 1..Len(Existing.rows) :
                  KeyOf(Existing.rows[i], key) \notin Keys(Incoming, key) =>
                     \E j \in 1..Len(TheFile.rows) :
                        KeepsValues(TheFile.rows[j], Existing.rows[i])

\* C11: the keys of the output are those of the existing and the incoming
\* table; for every existing key that is not in the incoming table the
\* output's row of that key carries the values of the last existing row
\* with that key; and no call removes a key from the file.
C11_HistoryKept ==
    LET key == DedupKey(program)
    IN  /\ wrote =>
              /\ Keys(TheFile, key) = Keys(Existing, key) \cup Keys(Incoming, key)
              /\ \A k \in Keys(Existing, key) \ Keys(Incoming, key) :
                    /\ RowsWithKey(TheFile, key, k) # {}
                    /\ \A j \in RowsWithKey(TheFile, key, k) :
                          KeepsValues(TheFile.rows[j], LastWithKey(Existing, key, k))
        /\ Keys(Existing, key) \subseteq Keys(TheFile, key)
        /\ Keys(initial[Path(program)], key) \subseteq Keys(TheFile, key)

C11_Witness ==
    /\ wrote
    /\ LET key == DedupKey(program)
       IN  /\ \E k \in Keys(Existing, key) \ Keys(Incoming, key) :
                 /\ Cardinality(RowsWithKey(Existing, key, k)) = 2
                 /\ Existing.rows[1] # Existing.rows[2]
           /\ Keys(Incoming, key) # {}
           /\ Len(TheFile.rows) = 2

====
